---------------------------- MODULE Spec2Model ----------------------------
(***************************************************************************)
(* ESP32 Firebase Wake-on-LAN controller (src/main.ino).                   *)
(*                                                                         *)
(* The model holds the remote store (the trigger flag and the task queue), *)
(* the queue pass of processWolQueue as the main loop runs it, the stream  *)
(* callback firebaseStreamCallback, and sendWOL with its packet loop.      *)
(* Every store request and every delay() is one step, so the stream        *)
(* callback and the external clients of the store interleave with a pass   *)
(* at the places where the firmware waits.  A store request and the reads  *)
(* of its response that follow it without waiting are one step.            *)
(***************************************************************************)
EXTENDS Integers, Sequences, FiniteSets, TLC

(***************************************************************************)
(* Bounds of the model.                                                    *)
(***************************************************************************)
MaxPasses == 2        \* queue passes the main loop starts
MaxClientOps == 1     \* writes by external clients of the store
MaxResumes == 1       \* times the stream is re-established
MaxBoots == 2         \* times the device is powered up

(***************************************************************************)
(* Configuration section of the firmware.                                  *)
(***************************************************************************)
DIRECT_TRIGGER_TARGET_MAC == "00:00:00:00:00:00"
QUEUE_CHECK_INTERVAL == 15000
LOOP_DELAY == 200

TaskIds == {"t1", "t2"}
\* keys of the queue object in the order the JSON iterator yields them
KeyOrder == <<"t1", "t2">>

NoField == "<none>"

(***************************************************************************)
(* Values stored in a task's delay field: absent, a JSON number, or a      *)
(* string (a sequence of characters).                                      *)
(***************************************************************************)
DelayNone == [kind |-> "none", n |-> 0, s |-> <<>>]
DelayInt(n) == [kind |-> "int", n |-> n, s |-> <<>>]
DelayStr(s) == [kind |-> "str", n |-> 0, s |-> s]

Digits == <<"0", "1", "2", "3", "4", "5", "6", "7", "8", "9">>
IsDigit(c) == \E d \in 1..10 : Digits[d] = c
DigitVal(c) == (CHOOSE d \in 1..10 : Digits[d] = c) - 1

RECURSIVE ParseDigits(_, _)
ParseDigits(s, acc) ==
    IF s = <<>> \/ ~IsDigit(Head(s)) THEN acc
    ELSE ParseDigits(Tail(s), acc * 10 + DigitVal(Head(s)))

RECURSIVE SkipSpaces(_)
SkipSpaces(s) == IF s # <<>> /\ Head(s) = " " THEN SkipSpaces(Tail(s)) ELSE s

\* String::toInt(): leading blanks, an optional sign, then digits up to the
\* first character that is none; 0 when there is no digit.
toInt(str) ==
    LET s == SkipSpaces(str) IN
    IF s # <<>> /\ Head(s) = "-" THEN 0 - ParseDigits(Tail(s), 0)
    ELSE IF s # <<>> /\ Head(s) = "+" THEN ParseDigits(Tail(s), 0)
    ELSE ParseDigits(s, 0)

\* delayMs as lines 387-406 compute it from the fetched task object
DelayMsOf(d) ==
    LET raw == IF d.kind = "none" THEN 0
               ELSE IF d.kind = "int" THEN d.n
               ELSE toInt(d.s)
    IN IF raw < 0 THEN 0 ELSE raw

(***************************************************************************)
(* Entries of the queue object.                                            *)
(***************************************************************************)
Absent == [kind |-> "absent", status |-> NoField, mac |-> NoField, delay |-> DelayNone]
Scalar == [kind |-> "scalar", status |-> NoField, mac |-> NoField, delay |-> DelayNone]
Task(st, m, d) == [kind |-> "object", status |-> st, mac |-> m, delay |-> d]

ValidMac == "AA:BB:CC:DD:EE:FF"
OddMac == "zz-zz-zz-zz-zz-zz"    \* 17 characters, not colon-separated hex
BadMac == "bad-mac"
LowerMac == "0a:1b:2c:3d:4e:5f"
LongMac == "AA:BB:CC:DD:EE:FF:00"

TaskTemplates ==
    { Absent, Scalar,
      Task("pending", ValidMac, DelayNone),
      Task("pending", ValidMac, DelayInt(1000)),
      Task("pending", OddMac, DelayStr(<<"-", "5">>)),
      Task("pending", BadMac, DelayStr(<<" ", "5", "0", "m", "s">>)),
      Task("pending", NoField, DelayInt(500)),
      Task("done", ValidMac, DelayNone),
      Task("error_missing_mac", NoField, DelayNone),
      Task(NoField, ValidMac, DelayInt(-1)) }

ScenarioTemplates ==
    { Task("pending", ValidMac, DelayInt(1000)),
      Task("pending", BadMac, DelayNone),
      Task("pending", NoField, DelayNone),
      Task("done", ValidMac, DelayNone) }

\* what an external client may put under a task id
ClientEntries ==
    { Absent,
      Task("pending", ValidMac, DelayNone),
      Task("cancelled", ValidMac, DelayNone) }

(***************************************************************************)
(* Values of the trigger flag and of a stream notification.  b is what     *)
(* boolData() returns for the value.                                       *)
(***************************************************************************)
BoolVal(b) == [type |-> "boolean", b |-> b]
NullVal == [type |-> "null", b |-> FALSE]
StringVal == [type |-> "string", b |-> TRUE]     \* the string "true"
IntVal == [type |-> "int", b |-> TRUE]           \* the number 1

ClientFlagWrites == {BoolVal(TRUE), BoolVal(FALSE), StringVal, IntVal}

HomeIP == <<192, 168, 1, 57>>
LocalIPs == { HomeIP, <<10, 0, 0, 255>> }

VARIABLES
    flag,               \* store: value at FIREBASE_DIRECT_TRIGGER_PATH
    queue,              \* store: entry under FIREBASE_QUEUE_PATH per task id
    DELETE_COMPLETED_QUEUE_TASKS,   \* the pruning option
    localIP,            \* WiFi.localIP()
    pc,                 \* where the main loop is
    snapshot,           \* keys and types found by the bulk read
    i,                  \* loop index of processWolQueue
    completedTaskIds,   \* ids marked for deletion
    macAddress, delayMs,\* locals of the task being processed
    hpc,                \* where the stream callback is
    notif,              \* notifications not yet delivered
    wol,                \* per caller: the running or last sendWOL call
    passes, clientOps, resumes,     \* counters the bounds cap
    j,                  \* loop index of the deletion loop
    spc,                \* where setup() is, "loop" once it has returned
    success,            \* local of checkAndInitFirebaseStructure
    queueRoot,          \* store: what FIREBASE_QUEUE_PATH holds when it has no entry
    streamBegun,        \* beginStream succeeded and the callbacks are set
    boots,              \* times the device was powered up
    sinceCheck,         \* millis() - lastQueueCheckMillis as line 148 finds it
    sessions,           \* ghost: the latest request issued over each session
    slog,               \* ghost: what setup() and the last structure check did
    passEnv,            \* ghost: what the last pass found the store to be, what
                        \* the pass before had found (prev), what line 148 found
                        \* (elapsed), the time the loop had spent in
                        \* delay(LOOP_DELAY) since the pass before (idled)
    passLog,            \* ghost: what the current or last pass did per task
    hlog,               \* ghost: what the current or last callback did
    totals              \* ghost: counts over the whole run

vars == <<flag, queue, DELETE_COMPLETED_QUEUE_TASKS, localIP, pc, snapshot, i,
          completedTaskIds, macAddress, delayMs, hpc, notif, wol, passes,
          clientOps, resumes, j, spc, success, queueRoot, streamBegun, boots,
          sinceCheck, sessions, slog, passEnv, passLog, hlog, totals>>

storeVars == <<flag, queue>>
configVars == <<DELETE_COMPLETED_QUEUE_TASKS, localIP>>
passVars == <<pc, snapshot, i, j, completedTaskIds, macAddress, delayMs>>
ghostVars == <<passEnv, passLog, hlog, totals>>
streamVars == <<hpc, notif>>
setupVars == <<spc, success, queueRoot, streamBegun, boots, slog>>

(***************************************************************************)
(* sendWOL, lines 281-299.  A call is a record: the argument, the          *)
(* broadcast address it computed, the loop counter i (here k) and the      *)
(* packets handed to wol_sender.sendMagicPacket so far.                    *)
(***************************************************************************)
NullPtr == "<NULL>"
NoIP == <<0, 0, 0, 0>>
NoCall == [state |-> "none", mac |-> NoField, broadcastIP |-> NoIP, k |-> 0, sent |-> <<>>]

\* line 282: the only check made on the address
RejectedMac(mac) == mac = NullPtr \/ Len(mac) # 17

\* faulty variant: the wrong octet is replaced
BroadcastOf_ThirdOctet(ip) == [ip EXCEPT ![3] = 255]

\* lines 287-289
BroadcastOf(ip) == [ip EXCEPT ![4] = 255]

\* line 295: the loop condition
MorePackets(k) == k < 3

\* lines 281-292: entry of sendWOL
sendWOL(mac, ip) ==
    IF RejectedMac(mac)
    THEN [NoCall EXCEPT !.state = "rejected", !.mac = mac]
    ELSE [NoCall EXCEPT !.state = "sending", !.mac = mac,
                        !.broadcastIP = BroadcastOf(ip)]

\* lines 295-298: one turn of the loop, up to the end of its delay(50)
sendMagicPacket(w) ==
    LET sent == Append(w.sent, [mac |-> w.mac, to |-> w.broadcastIP])
    IN [w EXCEPT !.sent = sent, !.k = w.k + 1,
                 !.state = IF MorePackets(w.k + 1) THEN "sending" ELSE "returned"]

(***************************************************************************)
(* Ghost records.                                                          *)
(***************************************************************************)
\* per task and pass: the type the bulk read gave, the outcome of the re-read,
\* the store's entry when the pass evaluated it, what the pass decided, and
\* what it then did; touched: an external client wrote the task after the
\* pass last read or wrote it; retry: the pass before sent the task's packets
\* and failed to write "done"; prior: the last pass that got as far as the
\* task wrote "done" to it and then deleted it ("deleted") or did not ("kept"),
\* and no client has written the task since
BlankLog == [type |-> "none", read |-> "none", before |-> Absent, eval |-> "none",
             evals |-> 0, calls |-> 0, callMac |-> NoField, packets |-> 0,
             delays |-> 0, waited |-> 0, errWrite |-> "none", doneWrite |-> "none",
             deleted |-> "none", touched |-> FALSE, retry |-> FALSE,
             prior |-> "none"]

\* per callback: the notification, the sendWOL calls and the flag writes made
\* for it, the flag as the write found it, the packets out when it was made
BlankHLog == [data |-> NullVal, src |-> "none", calls |-> 0, callMac |-> NoField,
              writes |-> 0, reset |-> "none", sentAtWrite |-> 0,
              flagAtWrite |-> NullVal, flagTouched |-> FALSE]

(***************************************************************************)
(* The two sessions, lines 68-69: the FirebaseData object each request of  *)
(* the firmware is given.                                                  *)
(***************************************************************************)
Requests ==
    { "beginStream", "get flag", "setBool default", "get queue", "setJSON default",
      "setBool reset", "getJSON queue", "get task", "setString error",
      "setString done", "deleteNode" }

\* faulty variant: the callback resets the flag over the stream's session
SessionOf_ResetOverStream(r) ==
    IF r \in {"beginStream", "setBool reset"} THEN "fbdo_stream" ELSE "fbdo_general"

\* lines 135, 242, 245, 259, 264, 318, 350, 376, 394, 422, 468: the first
\* argument of each request
SessionOf(r) ==
    CASE r = "beginStream" -> "fbdo_stream"
      [] r = "get flag" -> "fbdo_general"
      [] r = "setBool default" -> "fbdo_general"
      [] r = "get queue" -> "fbdo_general"
      [] r = "setJSON default" -> "fbdo_general"
      [] r = "setBool reset" -> "fbdo_general"
      [] r = "getJSON queue" -> "fbdo_general"
      [] r = "get task" -> "fbdo_general"
      [] r = "setString error" -> "fbdo_general"
      [] r = "setString done" -> "fbdo_general"
      [] r = "deleteNode" -> "fbdo_general"

\* ghost: request r is issued
Issue(r) == sessions' = [sessions EXCEPT ![SessionOf(r)] = r]

(***************************************************************************)
(* Store requests on one task.                                             *)
(***************************************************************************)
\* faulty variant: the string is written at taskPath, not at taskPath + "/status"
SetStatus_AtTaskPath(q, t, s) == [q EXCEPT ![t] = Scalar]

\* setString(taskPath + "/status", s): the store creates the node when the
\* task is no longer an object
SetStatus(q, t, s) ==
    IF q[t].kind = "object" THEN [q EXCEPT ![t].status = s]
    ELSE [q EXCEPT ![t] = Task(s, NoField, DelayNone)]

\* faulty variant: the node deleted is taskPath + "/status"
DeleteNode_StatusOnly(q, t) == [q EXCEPT ![t].status = NoField]

\* deleteNode(taskPath)
DeleteNode(q, t) == [q EXCEPT ![t] = Absent]

(***************************************************************************)
(* processWolQueue, lines 341-483.                                         *)
(***************************************************************************)
\* faulty variant: the status is not compared with "pending"
Evaluate_AnyStatus(type, getOk, cur) ==
    IF type # "object" THEN "notobject"
    ELSE IF ~getOk THEN "readfail"
    ELSE IF cur.kind # "object" THEN "notjson"
    ELSE IF cur.status = NoField THEN "nostatus"
    ELSE IF cur.mac = NoField THEN "nomac"
    ELSE "process"

\* faulty variant: a missing mac field goes unnoticed
Evaluate_NoMacCheck(type, getOk, cur) ==
    IF type # "object" THEN "notobject"
    ELSE IF ~getOk THEN "readfail"
    ELSE IF cur.kind # "object" THEN "notjson"
    ELSE IF cur.status = NoField THEN "nostatus"
    ELSE IF cur.status # "pending" THEN "skip"
    ELSE "process"

\* faulty variant: the outcome of the re-read is not looked at
Evaluate_ReadUnchecked(type, getOk, cur) ==
    IF type # "object" THEN "notobject"
    ELSE IF cur.kind # "object" THEN "notjson"
    ELSE IF cur.status = NoField THEN "nostatus"
    ELSE IF cur.status # "pending" THEN "skip"
    ELSE IF cur.mac = NoField THEN "nomac"
    ELSE "process"

\* lines 368-396: what the pass decides for one entry of the snapshot, from
\* the entry's type, the outcome of the re-read and the fetched object
Evaluate(type, getOk, cur) ==
    IF type # "object" THEN "notobject"
    ELSE IF ~getOk THEN "readfail"
    ELSE IF cur.kind # "object" THEN "notjson"
    ELSE IF cur.status = NoField THEN "nostatus"
    ELSE IF cur.status # "pending" THEN "skip"
    ELSE IF cur.mac = NoField THEN "nomac"
    ELSE "process"

\* faulty variant: a task that is not pending is marked whatever its status
MarkIfDone_AnyStatus(ids, t, status) ==
    IF DELETE_COMPLETED_QUEUE_TASKS THEN Append(ids, t) ELSE ids

\* lines 437-439: marking a task found done
MarkIfDone(ids, t, status) ==
    IF DELETE_COMPLETED_QUEUE_TASKS /\ status = "done" THEN Append(ids, t) ELSE ids

\* faulty variant: the task is marked whatever the status write returned
MarkCompleted_Unchecked(ids, t, ok) ==
    IF DELETE_COMPLETED_QUEUE_TASKS THEN Append(ids, t) ELSE ids

\* lines 422-426: marking a task whose status write succeeded
MarkCompleted(ids, t, ok) ==
    IF ok /\ DELETE_COMPLETED_QUEUE_TASKS THEN Append(ids, t) ELSE ids

\* faulty variant: the task's delay is skipped
StepAfterExtract_NoWait(ms) == "send"

\* lines 412-415: if (delayMs > 0) delay(delayMs), then sendWOL
StepAfterExtract(ms) == IF ms > 0 THEN "delay" ELSE "send"

\* faulty variant: the for loop is left after the entry at hand
NextTask_EndPass(ids) ==
    IF DELETE_COMPLETED_QUEUE_TASKS /\ ids # <<>>
    THEN pc' = "prune" /\ i' = 0 /\ j' = 1
    ELSE pc' = "idle" /\ i' = 0 /\ j' = 0

\* the for loop's step (line 365) and what follows the loop (lines 458-461)
NextTask(ids) ==
    IF i < Len(snapshot) THEN pc' = "inspect" /\ i' = i + 1 /\ j' = j
    ELSE IF DELETE_COMPLETED_QUEUE_TASKS /\ ids # <<>>
         THEN pc' = "prune" /\ i' = 0 /\ j' = 1
         ELSE pc' = "idle" /\ i' = 0 /\ j' = 0

\* ghost: what a pass leaves behind for the next bulk read of the queue
PriorOf(l) ==
    IF l.doneWrite = "ok"
    THEN IF l.touched THEN "none" ELSE IF l.deleted = "ok" THEN "deleted" ELSE "kept"
    ELSE IF passEnv.lastRead = "fail" THEN l.prior ELSE "none"

\* faulty variant: the time of the check is kept only when the store was ready
AfterPass_OnlyWhenReady(ready, elapsed) == IF ready THEN 0 ELSE elapsed

\* line 151: lastQueueCheckMillis = millis(), whatever the pass did; the
\* result is millis() - lastQueueCheckMillis right after
AfterPass(ready, elapsed) == 0

\* lines 148 and 155: the turns of the main loop that only wait, each for
\* LOOP_DELAY, before the test of line 148 succeeds, when the next turn
\* finds millis() - lastQueueCheckMillis to be s
TurnsUntilDue(s) ==
    IF s >= QUEUE_CHECK_INTERVAL THEN 0
    ELSE (QUEUE_CHECK_INTERVAL - s + LOOP_DELAY - 1) \div LOOP_DELAY

\* lines 146-156 and 341-363: the main loop waits until the interval has
\* elapsed and starts a pass; the readiness check and the bulk read of the
\* queue.  sinceCheck is millis() - lastQueueCheckMillis as the next turn of
\* the loop will find it: line 151 gives it when the pass has returned, line
\* 155 adds LOOP_DELAY, and nothing reads it before.
loop_Turn(ready, getOk) ==
    /\ spc = "loop"
    /\ pc = "idle"
    /\ passEnv' = [ready |-> ready, getOk |-> ready /\ getOk,
                   lastRead |-> IF ~ready THEN passEnv.lastRead
                                ELSE IF getOk THEN "ok" ELSE "fail",
                   prev |-> IF passes = 0 THEN "none"
                            ELSE IF passEnv.ready THEN "ready" ELSE "notready",
                   elapsed |-> sinceCheck + TurnsUntilDue(sinceCheck) * LOOP_DELAY,
                   idled |-> TurnsUntilDue(sinceCheck) * LOOP_DELAY
                             + (IF passes > 0 THEN LOOP_DELAY ELSE 0)]
    /\ IF ~ready
       THEN UNCHANGED <<passVars, passLog>>
       ELSE /\ LET Present(k) == queue[k].kind # "absent"
                   found == SelectSeq(KeyOrder, Present)
                   snap == [n \in 1..Len(found) |->
                               [key |-> found[n], type |-> queue[found[n]].kind]]
               IN IF getOk /\ found # <<>>
                  THEN pc' = "inspect" /\ snapshot' = snap /\ i' = 1
                  ELSE pc' = "idle" /\ snapshot' = <<>> /\ i' = 0
            /\ passLog' = [t \in TaskIds |->
                              [BlankLog EXCEPT !.retry = /\ passLog[t].packets > 0
                                                         /\ passLog[t].doneWrite = "fail"
                                                         /\ ~passLog[t].touched,
                                               !.prior = PriorOf(passLog[t])]]
            /\ completedTaskIds' = <<>> /\ macAddress' = NoField
            /\ delayMs' = 0 /\ j' = 0
    /\ sinceCheck' = AfterPass(ready, sinceCheck + TurnsUntilDue(sinceCheck) * LOOP_DELAY)
                      + LOOP_DELAY
    /\ IF ready THEN Issue("getJSON queue") ELSE UNCHANGED sessions
    /\ UNCHANGED <<storeVars, configVars, setupVars, streamVars, wol, clientOps, resumes,
                   hlog, totals>>

\* a counter of the model that stops at MaxPasses
Counted(n) == IF n < MaxPasses THEN n + 1 ELSE n

\* the main loop for MaxPasses passes
loop(ready, getOk) ==
    /\ passes < MaxPasses
    /\ passes' = passes + 1
    /\ loop_Turn(ready, getOk)

\* the main loop without end, line 146: loop() is called again and again
loop_Forever(ready, getOk) ==
    /\ passes' = Counted(passes)
    /\ loop_Turn(ready, getOk)

\* lines 69, 318, 376 and 379: what fbdo_general holds when the pass looks at
\* the task it has fetched.  The stream callback gives the same object to its
\* setBool, and nothing orders the two callers: when the callback's request is
\* under way (hpc = "reset") while the pass makes its own, the object holds
\* the response of either, the task or the boolean.
Fetched(cur) == IF hpc = "reset" THEN {cur, Scalar} ELSE {cur}

\* lines 365-409 and 431-456: the entry at index i is re-read and evaluated
processWolQueue_Inspect(getOk) ==
    /\ pc = "inspect"
    /\ \E seen \in Fetched(queue[snapshot[i].key]) :
       LET t == snapshot[i].key
           cur == queue[t]
           ev == Evaluate(snapshot[i].type, getOk, seen)
           ids == IF ev = "skip" THEN MarkIfDone(completedTaskIds, t, cur.status)
                  ELSE completedTaskIds
       IN /\ passLog' = [passLog EXCEPT
                            ![t].type = snapshot[i].type,
                            ![t].read = IF snapshot[i].type # "object" THEN "none"
                                        ELSE IF getOk THEN "ok" ELSE "fail",
                            ![t].before = cur, ![t].eval = ev,
                            ![t].evals = @ + 1, ![t].touched = FALSE]
          /\ completedTaskIds' = ids
          /\ IF ev = "process"
             THEN /\ macAddress' = cur.mac
                  /\ delayMs' = DelayMsOf(cur.delay)
                  /\ pc' = StepAfterExtract(DelayMsOf(cur.delay))
                  /\ UNCHANGED <<i, j>>
             ELSE IF ev = "nomac"
             THEN pc' = "errwrite" /\ UNCHANGED <<i, j, macAddress, delayMs>>
             ELSE NextTask(ids) /\ UNCHANGED <<macAddress, delayMs>>
    /\ IF snapshot[i].type = "object" THEN Issue("get task") ELSE UNCHANGED sessions
    /\ UNCHANGED <<storeVars, configVars, setupVars, sinceCheck, snapshot, streamVars, wol, passes,
                   clientOps, resumes, passEnv, hlog, totals>>

\* lines 393-395: the error status is written, its outcome not looked at
processWolQueue_MissingMac(ok) ==
    /\ pc = "errwrite"
    /\ LET t == snapshot[i].key
       IN /\ queue' = IF ok THEN SetStatus(queue, t, "error_missing_mac") ELSE queue
          /\ passLog' = [passLog EXCEPT ![t].errWrite = IF ok THEN "ok" ELSE "fail",
                                        ![t].touched = IF ok THEN FALSE ELSE @]
          /\ totals' = IF ok THEN totals ELSE [totals EXCEPT !.abnormal[t] = TRUE]
    /\ NextTask(completedTaskIds)
    /\ Issue("setString error")
    /\ UNCHANGED <<flag, configVars, setupVars, sinceCheck, snapshot, completedTaskIds, macAddress, delayMs,
                   streamVars, wol, passes, clientOps, resumes, passEnv, hlog>>

\* lines 411-415: delay(delayMs)
processWolQueue_Delay ==
    /\ pc = "delay"
    /\ pc' = "send"
    /\ passLog' = [passLog EXCEPT ![snapshot[i].key].delays = @ + 1,
                                  ![snapshot[i].key].waited = @ + delayMs]
    /\ UNCHANGED <<storeVars, configVars, setupVars, sinceCheck, sessions, snapshot, i, j, completedTaskIds, macAddress,
                   delayMs, streamVars, wol, passes, clientOps, resumes, passEnv,
                   hlog, totals>>

\* line 418: sendWOL(macAddress.c_str()) is entered
processWolQueue_Send ==
    /\ pc = "send"
    /\ LET t == snapshot[i].key
           call == sendWOL(macAddress, localIP)
       IN /\ wol' = [wol EXCEPT !["queue"] = call]
          /\ pc' = IF call.state = "rejected" THEN "write" ELSE "pacing"
          /\ passLog' = [passLog EXCEPT ![t].calls = @ + 1, ![t].callMac = macAddress]
          /\ totals' = [totals EXCEPT !.taskCalls[t] = Counted(@)]
    /\ UNCHANGED <<storeVars, configVars, setupVars, sinceCheck, sessions, snapshot, i, j, completedTaskIds, macAddress,
                   delayMs, streamVars, passes, clientOps, resumes, passEnv, hlog>>

\* lines 295-298 within the pass: one packet and its pacing delay
processWolQueue_Packet ==
    /\ pc = "pacing"
    /\ LET call == sendMagicPacket(wol["queue"])
       IN /\ wol' = [wol EXCEPT !["queue"] = call]
          /\ pc' = IF call.state = "returned" THEN "write" ELSE "pacing"
    /\ passLog' = [passLog EXCEPT ![snapshot[i].key].packets = @ + 1]
    /\ UNCHANGED <<storeVars, configVars, setupVars, sinceCheck, sessions, snapshot, i, j, completedTaskIds, macAddress,
                   delayMs, streamVars, passes, clientOps, resumes, passEnv, hlog,
                   totals>>

\* lines 420-429: the status is set to "done"
processWolQueue_WriteDone(ok) ==
    /\ pc = "write"
    /\ LET t == snapshot[i].key
           ids == MarkCompleted(completedTaskIds, t, ok)
       IN /\ queue' = IF ok THEN SetStatus(queue, t, "done") ELSE queue
          /\ completedTaskIds' = ids
          /\ passLog' = [passLog EXCEPT ![t].doneWrite = IF ok THEN "ok" ELSE "fail",
                                        ![t].touched = IF ok THEN FALSE ELSE @]
          /\ totals' = IF ok THEN totals ELSE [totals EXCEPT !.abnormal[t] = TRUE]
          /\ NextTask(ids)
    /\ macAddress' = NoField /\ delayMs' = 0
    /\ Issue("setString done")
    /\ UNCHANGED <<flag, configVars, setupVars, sinceCheck, snapshot, streamVars, wol, passes, clientOps,
                   resumes, passEnv, hlog>>

\* lines 460-472: one turn of the deletion loop
processWolQueue_Delete(ok) ==
    /\ pc = "prune"
    /\ LET t == completedTaskIds[j]
       IN /\ queue' = IF ok THEN DeleteNode(queue, t) ELSE queue
          /\ passLog' = [passLog EXCEPT ![t].deleted = IF ok THEN "ok" ELSE "fail"]
    /\ IF j < Len(completedTaskIds) THEN j' = j + 1 /\ pc' = pc
       ELSE j' = 0 /\ pc' = "idle"
    /\ Issue("deleteNode")
    /\ UNCHANGED <<flag, configVars, setupVars, sinceCheck, snapshot, i, completedTaskIds, macAddress, delayMs,
                   streamVars, wol, passes, clientOps, resumes, passEnv, hlog, totals>>

(***************************************************************************)
(* firebaseStreamCallback, lines 302-324.                                  *)
(***************************************************************************)
\* faulty variant: the type of the value is not tested
IsTrigger_Truthy(data) == data.b

\* line 310: the test made on the notification
IsTrigger(data) == data.type = "boolean" /\ data.b

\* what the stream delivers for a value written to the flag path
Event(value, src) == [data |-> value, src |-> src]

\* lines 302-311: a notification reaches the callback
firebaseStreamCallback_Deliver ==
    /\ streamBegun
    /\ hpc = "idle"
    /\ notif # <<>>
    /\ LET ev == Head(notif)
       IN /\ hpc' = IF IsTrigger(ev.data) THEN "send" ELSE "idle"
          /\ hlog' = [BlankHLog EXCEPT !.data = ev.data, !.src = ev.src]
          /\ totals' = IF ev.data = BoolVal(TRUE)
                       THEN [totals EXCEPT !.nTrue = @ + 1]
                       ELSE [totals EXCEPT !.nOther = @ + 1]
    /\ notif' = Tail(notif)
    /\ UNCHANGED <<storeVars, configVars, setupVars, sinceCheck, sessions, passVars, wol, passes, clientOps, resumes,
                   passEnv, passLog>>

\* line 313: sendWOL(DIRECT_TRIGGER_TARGET_MAC) is entered
firebaseStreamCallback_Send ==
    /\ hpc = "send"
    /\ LET call == sendWOL(DIRECT_TRIGGER_TARGET_MAC, localIP)
       IN /\ wol' = [wol EXCEPT !["stream"] = call]
          /\ hpc' = IF call.state = "rejected" THEN "reset" ELSE "pacing"
    /\ hlog' = [hlog EXCEPT !.calls = @ + 1, !.callMac = DIRECT_TRIGGER_TARGET_MAC]
    /\ totals' = [totals EXCEPT !.trigCalls = @ + 1]
    /\ UNCHANGED <<storeVars, configVars, setupVars, sinceCheck, sessions, passVars, notif, passes, clientOps, resumes,
                   passEnv, passLog>>

\* lines 295-298 within the callback: one packet and its pacing delay
firebaseStreamCallback_Packet ==
    /\ hpc = "pacing"
    /\ LET call == sendMagicPacket(wol["stream"])
       IN /\ wol' = [wol EXCEPT !["stream"] = call]
          /\ hpc' = IF call.state = "returned" THEN "reset" ELSE "pacing"
    /\ UNCHANGED <<storeVars, configVars, setupVars, sinceCheck, sessions, passVars, notif, passes, clientOps, resumes,
                   ghostVars>>

\* faulty variant: true is written back
ResetValue_True == BoolVal(TRUE)

\* line 318: the value written back
ResetValue == BoolVal(FALSE)

\* faulty variant: a failed reset is tried again
firebaseStreamCallback_ResetRetry(ok) ==
    /\ hpc = "reset"
    /\ hpc' = IF ok THEN "idle" ELSE "reset"
    /\ flag' = IF ok THEN ResetValue ELSE flag
    /\ notif' = IF ok THEN Append(notif, Event(ResetValue, "reset")) ELSE notif
    /\ hlog' = [hlog EXCEPT !.writes = @ + 1, !.reset = IF ok THEN "ok" ELSE "fail",
                            !.sentAtWrite = Len(wol["stream"].sent),
                            !.flagAtWrite = flag, !.flagTouched = FALSE]
    /\ totals' = [totals EXCEPT !.trigWrites = @ + 1,
                                !.resetFails = IF ok THEN @ ELSE @ + 1]
    /\ Issue("setBool reset")
    /\ UNCHANGED <<queue, configVars, setupVars, sinceCheck, passVars, wol, passes, clientOps, resumes,
                   passEnv, passLog>>

\* lines 315-322: setBool(FIREBASE_DIRECT_TRIGGER_PATH, false) over fbdo_general
firebaseStreamCallback_Reset(ok) ==
    /\ hpc = "reset"
    /\ hpc' = "idle"
    /\ flag' = IF ok THEN ResetValue ELSE flag
    /\ notif' = IF ok THEN Append(notif, Event(ResetValue, "reset")) ELSE notif
    /\ hlog' = [hlog EXCEPT !.writes = @ + 1, !.reset = IF ok THEN "ok" ELSE "fail",
                            !.sentAtWrite = Len(wol["stream"].sent),
                            !.flagAtWrite = flag, !.flagTouched = FALSE]
    /\ totals' = [totals EXCEPT !.trigWrites = @ + 1,
                                !.resetFails = IF ok THEN @ ELSE @ + 1]
    /\ Issue("setBool reset")
    /\ UNCHANGED <<queue, configVars, setupVars, sinceCheck, passVars, wol, passes, clientOps, resumes,
                   passEnv, passLog>>

\* lines 326-338: after a timeout the library re-establishes the stream, and
\* the store then sends the value the path holds
firebaseStreamTimeoutCallback ==
    /\ streamBegun
    /\ resumes < MaxResumes
    /\ resumes' = resumes + 1
    /\ notif' = Append(notif, Event(flag, "resume"))
    /\ UNCHANGED <<storeVars, configVars, setupVars, sinceCheck, sessions, passVars, hpc, wol, passes, clientOps,
                   ghostVars>>

(***************************************************************************)
(* The external clients of the store.                                      *)
(***************************************************************************)
ClientPutTask(t, e) ==
    /\ clientOps < MaxClientOps
    /\ e # queue[t]
    /\ clientOps' = clientOps + 1
    /\ queue' = [queue EXCEPT ![t] = e]
    /\ passLog' = [passLog EXCEPT ![t].touched = TRUE, ![t].retry = FALSE,
                                  ![t].prior = "none"]
    /\ totals' = [totals EXCEPT !.abnormal[t] = TRUE]
    /\ UNCHANGED <<flag, configVars, setupVars, sinceCheck, sessions, passVars, streamVars, wol, passes, resumes,
                   passEnv, hlog>>

ClientSetFlag(v) ==
    /\ clientOps < MaxClientOps
    /\ clientOps' = clientOps + 1
    /\ flag' = v
    /\ notif' = Append(notif, Event(v, "client"))
    /\ hlog' = [hlog EXCEPT !.flagTouched = TRUE]
    /\ UNCHANGED <<queue, configVars, setupVars, sinceCheck, sessions, passVars, hpc, wol, passes, resumes, passEnv,
                   passLog, totals>>

(***************************************************************************)
(* checkAndInitFirebaseStructure, lines 237-277.                           *)
(***************************************************************************)
\* what FIREBASE_QUEUE_PATH holds: "object" with entries or as an empty
\* object, "null" when there is nothing, "scalar" otherwise
QueueValue(q, root) ==
    IF \E t \in TaskIds : q[t].kind # "absent" THEN "object" ELSE root

FlagHolds(v) == v.type # "null"
QueueHolds(q, root) == QueueValue(q, root) # "null"

\* how Firebase.RTDB.get can end: true ("ok"), or false with httpCode()
\* FIREBASE_ERROR_PATH_NOT_EXIST ("notexist"), with dataType() "null"
\* ("null"), or with any other error ("error")
ReadOutcomes(holds) ==
    IF holds THEN {"ok", "error"} ELSE {"notexist", "null", "error"}

\* faulty variant: every failed read is taken for a missing path
NeedsDefault_AnyFailure(outcome) == outcome # "ok"

\* lines 243 and 260: the failed reads after which the default is written
NeedsDefault(outcome) == outcome \in {"notexist", "null"}

\* ghost: the outcomes of the steps of setup() and of the structure check
BlankSLog ==
    [wifi |-> "none", ntp |-> "none", firebase |-> "none", stream |-> "none",
     flag0 |-> NullVal, queue0 |-> [t \in TaskIds |-> Absent], root0 |-> "null",
     flagRead |-> "none", queueRead |-> "none",
     flagWrite |-> "none", queueWrite |-> "none",
     writes |-> 0, returned |-> "none", prevWrites |-> -1]

\* lines 238-255: success is set, the flag path is read
checkAndInitFirebaseStructure_GetFlag(outcome) ==
    /\ spc = "structure"
    /\ outcome \in ReadOutcomes(FlagHolds(flag))
    /\ success' = TRUE
    /\ spc' = IF NeedsDefault(outcome) THEN "flagSet" ELSE "queueGet"
    /\ slog' = [slog EXCEPT !.flag0 = flag, !.queue0 = queue, !.root0 = queueRoot,
                            !.flagRead = outcome, !.queueRead = "none",
                            !.flagWrite = "none", !.queueWrite = "none",
                            !.writes = 0, !.returned = "none",
                            !.prevWrites = IF slog.returned = "none" THEN -1
                                           ELSE slog.writes]
    /\ Issue("get flag")
    /\ UNCHANGED <<storeVars, configVars, passVars, streamVars, wol, passes, clientOps,
                   resumes, queueRoot, streamBegun, boots, sinceCheck, passEnv,
                   passLog, hlog, totals>>

\* lines 245-248: setBool(FIREBASE_DIRECT_TRIGGER_PATH, false)
checkAndInitFirebaseStructure_SetFlag(ok) ==
    /\ spc = "flagSet"
    /\ spc' = "queueGet"
    /\ flag' = IF ok THEN BoolVal(FALSE) ELSE flag
    /\ success' = IF ok THEN success ELSE FALSE
    /\ slog' = [slog EXCEPT !.flagWrite = IF ok THEN "ok" ELSE "fail",
                            !.writes = @ + 1]
    /\ Issue("setBool default")
    /\ UNCHANGED <<queue, configVars, passVars, streamVars, wol, passes, clientOps,
                   resumes, queueRoot, streamBegun, boots, sinceCheck, passEnv,
                   passLog, hlog, totals>>

\* lines 259-274 and 276: the queue path is read; the function returns
\* success when no default is to be written
checkAndInitFirebaseStructure_GetQueue(outcome) ==
    /\ spc = "queueGet"
    /\ outcome \in ReadOutcomes(QueueHolds(queue, queueRoot))
    /\ spc' = IF NeedsDefault(outcome) THEN "queueSet" ELSE "stream"
    /\ slog' = [slog EXCEPT !.queueRead = outcome,
                            !.returned = IF NeedsDefault(outcome) THEN "none"
                                         ELSE IF success THEN "true" ELSE "false"]
    /\ Issue("get queue")
    /\ UNCHANGED <<storeVars, configVars, passVars, streamVars, wol, passes, clientOps,
                   resumes, success, queueRoot, streamBegun, boots, sinceCheck,
                   passEnv, passLog, hlog, totals>>

\* lines 262-267 and 276: setJSON(FIREBASE_QUEUE_PATH, {}), and the return.
\* The store may keep the empty object or hold nothing for it (kept).
checkAndInitFirebaseStructure_SetQueue(ok, kept) ==
    /\ spc = "queueSet"
    /\ spc' = "stream"
    /\ queue' = IF ok THEN [t \in TaskIds |-> Absent] ELSE queue
    /\ queueRoot' = IF ok THEN (IF kept THEN "object" ELSE "null") ELSE queueRoot
    /\ success' = IF ok THEN success ELSE FALSE
    /\ slog' = [slog EXCEPT !.queueWrite = IF ok THEN "ok" ELSE "fail",
                            !.writes = @ + 1,
                            !.returned = IF ok /\ success THEN "true" ELSE "false"]
    /\ Issue("setJSON default")
    /\ UNCHANGED <<flag, configVars, passVars, streamVars, wol, passes, clientOps,
                   resumes, streamBegun, boots, sinceCheck, passEnv, passLog, hlog,
                   totals>>

checkAndInitFirebaseStructure ==
    \/ \E outcome \in {"ok", "notexist", "null", "error"} :
          checkAndInitFirebaseStructure_GetFlag(outcome)
    \/ \E ok \in BOOLEAN : checkAndInitFirebaseStructure_SetFlag(ok)
    \/ \E outcome \in {"ok", "notexist", "null", "error"} :
          checkAndInitFirebaseStructure_GetQueue(outcome)
    \/ \E ok, kept \in BOOLEAN : checkAndInitFirebaseStructure_SetQueue(ok, kept)

(***************************************************************************)
(* setup, lines 89-143.                                                    *)
(***************************************************************************)
\* lines 99-102: while (1) when connectWiFi fails
AfterWiFi(ok) == IF ok THEN "ntp" ELSE "halted"

\* lines 118-121: while (1) when initFirebase fails
AfterFirebase(ok) == IF ok THEN "structure" ELSE "halted"

\* lines 135-142: setup returns whatever beginStream returned
AfterBeginStream(ok) == "loop"

\* lines 97-105
setup_WiFi(ok) ==
    /\ spc = "wifi"
    /\ spc' = AfterWiFi(ok)
    /\ slog' = [slog EXCEPT !.wifi = IF ok THEN "ok" ELSE "fail"]
    /\ UNCHANGED <<storeVars, configVars, passVars, streamVars, wol, passes, clientOps,
                   resumes, success, queueRoot, streamBegun, boots, sinceCheck,
                   sessions, passEnv, passLog, hlog, totals>>

\* lines 107-114: a failed syncTimeNTP is a warning
setup_NTP(ok) ==
    /\ spc = "ntp"
    /\ spc' = "firebase"
    /\ slog' = [slog EXCEPT !.ntp = IF ok THEN "ok" ELSE "fail"]
    /\ UNCHANGED <<storeVars, configVars, passVars, streamVars, wol, passes, clientOps,
                   resumes, success, queueRoot, streamBegun, boots, sinceCheck,
                   sessions, passEnv, passLog, hlog, totals>>

\* lines 116-122
setup_Firebase(ok) ==
    /\ spc = "firebase"
    /\ spc' = AfterFirebase(ok)
    /\ slog' = [slog EXCEPT !.firebase = IF ok THEN "ok" ELSE "fail"]
    /\ UNCHANGED <<storeVars, configVars, passVars, streamVars, wol, passes, clientOps,
                   resumes, success, queueRoot, streamBegun, boots, sinceCheck,
                   sessions, passEnv, passLog, hlog, totals>>

\* lines 133-143: beginStream over fbdo_stream; the callbacks are set when it
\* succeeded, and the store then sends the value the path holds.  late: setup
\* took at least QUEUE_CHECK_INTERVAL (lastQueueCheckMillis starts as 0, line 76).
setup_BeginStream(ok, late) ==
    /\ spc = "stream"
    /\ spc' = AfterBeginStream(ok)
    /\ streamBegun' = ok
    /\ notif' = IF ok THEN <<Event(flag, "begin")>> ELSE <<>>
    /\ sinceCheck' = IF late THEN QUEUE_CHECK_INTERVAL ELSE 0
    /\ slog' = [slog EXCEPT !.stream = IF ok THEN "ok" ELSE "fail"]
    /\ Issue("beginStream")
    /\ UNCHANGED <<storeVars, configVars, passVars, hpc, wol, passes, clientOps,
                   resumes, success, queueRoot, boots, passEnv, passLog, hlog, totals>>

setup ==
    \/ \E ok \in BOOLEAN : setup_WiFi(ok)
    \/ \E ok \in BOOLEAN : setup_NTP(ok)
    \/ \E ok \in BOOLEAN : setup_Firebase(ok)
    \/ checkAndInitFirebaseStructure
    \/ \E ok, late \in BOOLEAN : setup_BeginStream(ok, late)

\* the device is powered off and on again: setup() runs anew, the store is
\* as it was
PowerCycle ==
    /\ spc \in {"loop", "halted"}
    /\ pc = "idle" /\ hpc = "idle"
    /\ boots < MaxBoots
    /\ boots' = boots + 1
    /\ spc' = "wifi"
    /\ streamBegun' = FALSE
    /\ notif' = <<>>
    /\ sinceCheck' = 0
    /\ slog' = [slog EXCEPT !.wifi = "none", !.ntp = "none", !.firebase = "none",
                            !.stream = "none"]
    /\ UNCHANGED <<storeVars, configVars, passVars, hpc, wol, passes, clientOps,
                   resumes, success, queueRoot, sessions, passEnv, passLog, hlog,
                   totals>>

(***************************************************************************)
(* The device as setup() leaves it: the stream begun on the flag path      *)
(* (line 135) delivers the value the path holds, the main loop is about to *)
(* run.                                                                    *)
(***************************************************************************)
InitWith(flags, queues, prunings, ips) ==
    /\ flag \in flags
    /\ queue \in queues
    /\ DELETE_COMPLETED_QUEUE_TASKS \in prunings
    /\ localIP \in ips
    /\ pc = "idle" /\ snapshot = <<>> /\ i = 0 /\ j = 0
    /\ completedTaskIds = <<>> /\ macAddress = NoField /\ delayMs = 0
    /\ hpc = "idle"
    /\ notif = <<Event(flag, "begin")>>
    /\ wol = [c \in {"queue", "stream"} |-> NoCall]
    /\ passes = 0 /\ clientOps = 0 /\ resumes = 0
    /\ spc = "loop" /\ success = TRUE /\ queueRoot = "null"
    /\ streamBegun = TRUE /\ boots = 1
    /\ sinceCheck = QUEUE_CHECK_INTERVAL
    /\ sessions = [fbdo_stream |-> "beginStream", fbdo_general |-> "get queue"]
    /\ slog = [BlankSLog EXCEPT !.wifi = "ok", !.ntp = "ok", !.firebase = "ok",
                                !.stream = "ok",
                                !.flagRead = "error", !.queueRead = "error",
                                !.returned = "true"]
    /\ passEnv = [ready |-> FALSE, getOk |-> FALSE, lastRead |-> "none",
                  prev |-> "none", elapsed |-> 0, idled |-> 0]
    /\ passLog = [t \in TaskIds |-> BlankLog]
    /\ hlog = BlankHLog
    /\ totals = [taskCalls |-> [t \in TaskIds |-> 0],
                 abnormal |-> [t \in TaskIds |-> FALSE],
                 nTrue |-> 0, nOther |-> 0, trigCalls |-> 0, trigWrites |-> 0,
                 resetFails |-> 0]

\* the whole device, over the queues of the specification's example scenario
Init ==
    InitWith({BoolVal(FALSE)}, [TaskIds -> ScenarioTemplates], BOOLEAN, {HomeIP})

\* the main loop and the external writers of the queue, over every queue
InitQueue ==
    InitWith({BoolVal(FALSE)}, [TaskIds -> TaskTemplates], BOOLEAN, {HomeIP})

\* the stream callback and the external writers of the flag
InitStream ==
    InitWith({BoolVal(FALSE), BoolVal(TRUE), NullVal}, {[t \in TaskIds |-> Absent]},
             {FALSE}, LocalIPs)

processWolQueue ==
    \/ \E getOk \in BOOLEAN : processWolQueue_Inspect(getOk)
    \/ \E ok \in BOOLEAN : processWolQueue_MissingMac(ok)
    \/ processWolQueue_Delay
    \/ processWolQueue_Send
    \/ processWolQueue_Packet
    \/ \E ok \in BOOLEAN : processWolQueue_WriteDone(ok)
    \/ \E ok \in BOOLEAN : processWolQueue_Delete(ok)

firebaseStreamCallback ==
    \/ firebaseStreamCallback_Deliver
    \/ firebaseStreamCallback_Send
    \/ firebaseStreamCallback_Packet
    \/ \E ok \in BOOLEAN : firebaseStreamCallback_Reset(ok)

Client ==
    \/ \E t \in TaskIds, e \in ClientEntries : ClientPutTask(t, e)
    \/ \E v \in ClientFlagWrites : ClientSetFlag(v)

Next ==
    \/ \E ready, getOk \in BOOLEAN : loop(ready, getOk)
    \/ processWolQueue
    \/ firebaseStreamCallback
    \/ firebaseStreamTimeoutCallback
    \/ Client

Spec == Init /\ [][Next]_vars

NextQueue ==
    \/ \E ready, getOk \in BOOLEAN : loop(ready, getOk)
    \/ processWolQueue
    \/ \E t \in TaskIds, e \in ClientEntries : ClientPutTask(t, e)

SpecQueue == InitQueue /\ [][NextQueue]_vars

NextStream ==
    \/ firebaseStreamCallback
    \/ firebaseStreamTimeoutCallback
    \/ \E v \in ClientFlagWrites : ClientSetFlag(v)

SpecStream == InitStream /\ [][NextStream]_vars

\* one pending task with any address, on a device with any local address:
\* the pass as far as it goes for such a task
SendMacs == {ValidMac, LowerMac, DIRECT_TRIGGER_TARGET_MAC, OddMac, BadMac, LongMac}
SendIPs == { <<a, b, c, d>> : a \in {10, 192}, b \in {0, 168}, c \in {0, 1, 255},
                             d \in {0, 1, 57, 254, 255} }

InitSend ==
    InitWith({BoolVal(FALSE)},
             { [t \in TaskIds |-> IF t = "t1" THEN Task("pending", m, DelayNone)
                                              ELSE Absent] : m \in SendMacs },
             {FALSE}, SendIPs)

NextSend ==
    \/ \E ready, getOk \in BOOLEAN : loop(ready, getOk)
    \/ \E getOk \in BOOLEAN : processWolQueue_Inspect(getOk)
    \/ processWolQueue_Send
    \/ processWolQueue_Packet
    \/ \E ok \in BOOLEAN : processWolQueue_WriteDone(ok)

SpecSend == InitSend /\ [][NextSend]_vars

(***************************************************************************)
(* The device from power-on.                                               *)
(***************************************************************************)
InitPowerOn(flags, queues, roots, prunings) ==
    /\ flag \in flags
    /\ queue \in queues
    /\ queueRoot \in roots
    /\ (\E t \in TaskIds : queue[t].kind # "absent") => queueRoot = "null"
    /\ DELETE_COMPLETED_QUEUE_TASKS \in prunings
    /\ localIP = HomeIP
    /\ pc = "idle" /\ snapshot = <<>> /\ i = 0 /\ j = 0
    /\ completedTaskIds = <<>> /\ macAddress = NoField /\ delayMs = 0
    /\ hpc = "idle"
    /\ notif = <<>>
    /\ wol = [c \in {"queue", "stream"} |-> NoCall]
    /\ passes = 0 /\ clientOps = 0 /\ resumes = 0
    /\ spc = "wifi" /\ success = TRUE /\ streamBegun = FALSE /\ boots = 1
    /\ sinceCheck = 0
    /\ sessions = [fbdo_stream |-> "none", fbdo_general |-> "none"]
    /\ slog = BlankSLog
    /\ passEnv = [ready |-> FALSE, getOk |-> FALSE, lastRead |-> "none",
                  prev |-> "none", elapsed |-> 0, idled |-> 0]
    /\ passLog = [t \in TaskIds |-> BlankLog]
    /\ hlog = BlankHLog
    /\ totals = [taskCalls |-> [t \in TaskIds |-> 0],
                 abnormal |-> [t \in TaskIds |-> FALSE],
                 nTrue |-> 0, nOther |-> 0, trigCalls |-> 0, trigWrites |-> 0,
                 resetFails |-> 0]

OneTask(e) == [t \in TaskIds |-> IF t = "t1" THEN e ELSE Absent]

\* setup() on every store, boot after boot
InitBoot ==
    InitPowerOn({NullVal, BoolVal(FALSE), BoolVal(TRUE), StringVal},
                {OneTask(Absent), OneTask(Task("pending", ValidMac, DelayNone))},
                {"null", "object", "scalar"}, {FALSE})

NextBoot ==
    \/ setup
    \/ PowerCycle

SpecBoot == InitBoot /\ [][NextBoot]_vars

\* setup() and what runs after it
InitSetup ==
    InitPowerOn({NullVal, BoolVal(FALSE), BoolVal(TRUE)},
                {OneTask(Absent), OneTask(Task("pending", ValidMac, DelayNone)),
                 OneTask(Task("pending", NoField, DelayNone))},
                {"null"}, BOOLEAN)

NextSetup ==
    \/ setup
    \/ \E ready, getOk \in BOOLEAN : loop(ready, getOk)
    \/ \E getOk \in BOOLEAN : processWolQueue_Inspect(getOk)
    \/ \E ok \in BOOLEAN : processWolQueue_MissingMac(ok)
    \/ processWolQueue_Send
    \/ processWolQueue_Packet
    \/ \E ok \in BOOLEAN : processWolQueue_WriteDone(ok)
    \/ \E ok \in BOOLEAN : processWolQueue_Delete(ok)
    \/ firebaseStreamCallback

SpecSetup == InitSetup /\ [][NextSetup]_vars

\* the main loop running without end, no external client writing
LiveTemplates ==
    { Absent,
      Task("pending", ValidMac, DelayInt(1000)),
      Task("pending", BadMac, DelayNone),
      Task("pending", NoField, DelayNone),
      Task("done", ValidMac, DelayNone) }

InitLive ==
    InitWith({BoolVal(FALSE)}, [TaskIds -> LiveTemplates], BOOLEAN, {HomeIP})

NextLive ==
    \/ \E ready, getOk \in BOOLEAN : loop_Forever(ready, getOk)
    \/ processWolQueue

\* the pass is at task t
At(t) == pc \notin {"idle", "prune"} /\ snapshot[i].key = t

\* loop() is called again and again and every step it begins ends (delay()
\* returns, a request returns); the store is ready and its bulk read succeeds
\* again and again; for each task the re-read and the status write succeed
\* again and again
Fairness ==
    /\ WF_vars(NextLive)
    /\ SF_vars(loop_Forever(TRUE, TRUE))
    /\ \A t \in TaskIds :
          /\ SF_vars(At(t) /\ processWolQueue_Inspect(TRUE))
          /\ SF_vars(At(t) /\ processWolQueue_WriteDone(TRUE))

SpecLive == InitLive /\ [][NextLive]_vars /\ Fairness

(***************************************************************************)
(* Properties of the queue pass, checked under SpecQueue.                  *)
(***************************************************************************)
PassOver == pc = "idle" /\ passes > 0

\* the pass re-read task t and the store held a pending task object
ReadPending(t) ==
    /\ passLog[t].type = "object"
    /\ passLog[t].read = "ok"
    /\ passLog[t].before.kind = "object"
    /\ passLog[t].before.status = "pending"

\* nothing but the pass has written task t since the pass last accessed it,
\* and the pass has not deleted it
Undisturbed(t) == ~passLog[t].touched /\ passLog[t].deleted # "ok"

InSeq(x, seq) == \E n \in 1..Len(seq) : seq[n] = x

\* the addresses of the model in xx:xx:xx:xx:xx:xx hexadecimal-colon form
ColonHexMacs == {ValidMac, LowerMac, DIRECT_TRIGGER_TARGET_MAC}

\* C1: a task re-read as pending with a readable 17-character mac, whose
\* status write succeeds, has had sendWOL called exactly once in the pass,
\* with the mac the re-read gave, and its stored status is "done" (for as
\* long as no client rewrites it and pruning has not removed it).
C1_DispatchedOnceAndDone ==
    \A t \in TaskIds :
        ( /\ ReadPending(t)
          /\ passLog[t].before.mac # NoField
          /\ Len(passLog[t].before.mac) = 17
          /\ passLog[t].doneWrite = "ok" )
        => /\ passLog[t].calls = 1
           /\ passLog[t].callMac = passLog[t].before.mac
           /\ passLog[t].packets = 3
           /\ Undisturbed(t) => queue[t].status = "done"

C1_Witness ==
    \E t \in TaskIds :
        /\ PassOver
        /\ ReadPending(t)
        /\ passLog[t].before.mac = ValidMac
        /\ passLog[t].doneWrite = "ok"
        /\ passLog[t].calls = 1
        /\ queue[t].status = "done"

\* C2: as long as no store write for a task has failed and no external
\* client has written the task, sendWOL has been called at most once for it
\* over all the passes so far.
C2_AtMostOnce ==
    \A t \in TaskIds : ~totals.abnormal[t] => totals.taskCalls[t] <= 1

C2_Witness ==
    \E t \in TaskIds :
        /\ PassOver
        /\ passes >= 2
        /\ ~totals.abnormal[t]
        /\ totals.taskCalls[t] = 1
        /\ passLog[t].evals = 1
        /\ passLog[t].calls = 0
        /\ passLog[t].before.status = "done"

\* C3, as claimed: after a failed write of "done" the task stays pending and
\* unmarked, and the next pass that finds the store ready dispatches it again.
C3_Failed(t) ==
    passLog[t].packets > 0 /\ passLog[t].doneWrite = "fail" /\ ~passLog[t].touched

C3_StaysPending ==
    \A t \in TaskIds :
        C3_Failed(t) => /\ queue[t].kind = "object"
                        /\ queue[t].status = "pending"
                        /\ ~InSeq(t, completedTaskIds)
                        /\ passLog[t].deleted = "none"

C3_AsClaimed ==
    /\ C3_StaysPending
    /\ \A t \in TaskIds :
           (PassOver /\ passEnv.ready /\ passLog[t].retry) => passLog[t].calls >= 1

\* C3, amended: after a failed write of "done" the task, unless an external
\* client changes it, stays pending and unmarked, and the next pass that
\* finds the store ready and succeeds in reading the queue and the task
\* calls sendWOL for it again.
C3_RetriedWhenRead ==
    /\ C3_StaysPending
    /\ \A t \in TaskIds :
           ( /\ PassOver /\ passEnv.ready /\ passLog[t].retry
             /\ passEnv.getOk /\ passLog[t].read # "fail" )
           => /\ passLog[t].calls = 1
              /\ passLog[t].packets = 3
              /\ totals.taskCalls[t] >= 2

C3_Witness ==
    \E t \in TaskIds :
        /\ PassOver /\ passEnv.ready /\ passLog[t].retry
        /\ passLog[t].calls = 1
        /\ passLog[t].packets = 3
        /\ totals.taskCalls[t] = 2

\* C4: for a task re-read as pending without a mac field the pass calls
\* sendWOL zero times, applies no delay, issues the write of
\* "error_missing_mac" to its status, and goes on to evaluate every later
\* entry of the snapshot.
C4_MissingMac ==
    \A t \in TaskIds :
        (ReadPending(t) /\ passLog[t].before.mac = NoField)
        => /\ passLog[t].calls = 0 /\ passLog[t].packets = 0
           /\ passLog[t].delays = 0
           /\ passLog[t].doneWrite = "none"
           /\ (passLog[t].errWrite = "none") <=> (pc = "errwrite" /\ snapshot[i].key = t)
           /\ (passLog[t].errWrite = "ok" /\ Undisturbed(t))
                 => queue[t].status = "error_missing_mac"
           /\ PassOver => \A n \in 1..Len(snapshot) : passLog[snapshot[n].key].evals = 1

C4_Witness ==
    /\ PassOver
    /\ Len(snapshot) = 2
    /\ ReadPending(snapshot[1].key)
    /\ passLog[snapshot[1].key].before.mac = NoField
    /\ queue[snapshot[1].key].status = "error_missing_mac"
    /\ passLog[snapshot[2].key].evals = 1
    /\ passLog[snapshot[2].key].calls = 1

\* C5, as claimed: for a task re-read as pending whose mac is present but is
\* no 17-character colon-hex address, the pass sends no packet and the stored
\* status ends as "error_missing_mac".
C5_AsClaimed ==
    \A t \in TaskIds :
        ( /\ PassOver
          /\ ReadPending(t)
          /\ passLog[t].before.mac # NoField
          /\ passLog[t].before.mac \notin ColonHexMacs
          /\ passLog[t].doneWrite # "fail"
          /\ Undisturbed(t) )
        => /\ passLog[t].packets = 0
           /\ queue[t].status = "error_missing_mac"

\* C6: the pass calls sendWOL for a task, or writes its status, only if it
\* re-read the task as a pending object; for every other entry it evaluated
\* it sends nothing and the stored entry is as the pass found it (for as long
\* as no client rewrites it and pruning has not removed it).
C6_OnlyPending ==
    \A t \in TaskIds :
        /\ ( \/ passLog[t].calls > 0 \/ passLog[t].packets > 0
             \/ passLog[t].delays > 0
             \/ passLog[t].errWrite # "none" \/ passLog[t].doneWrite # "none" )
           => ReadPending(t)
        /\ (passLog[t].evals > 0 /\ ~ReadPending(t) /\ Undisturbed(t))
           => queue[t] = passLog[t].before

C6_Witness ==
    /\ PassOver
    /\ Len(snapshot) = 2
    /\ passLog[snapshot[1].key].before.status = "done"
    /\ passLog[snapshot[1].key].read = "ok"
    /\ passLog[snapshot[2].key].read = "fail"
    /\ passLog[snapshot[2].key].before.status = "pending"
    /\ \A t \in TaskIds : queue[t] = passLog[t].before /\ passLog[t].calls = 0

(***************************************************************************)
(* Properties of the stream callback, checked under SpecStream.            *)
(***************************************************************************)
\* C7: a callback for a notification carrying boolean true calls sendWOL
\* exactly once, with the configured target address, lets it send its three
\* packets, and only then issues its one write, of false, to the flag path.
C7_TriggerDispatchThenReset ==
    hlog.data = BoolVal(TRUE)
    => /\ hpc = "send" => (hlog.calls = 0 /\ hlog.writes = 0)
       /\ hpc = "pacing" => (hlog.calls = 1 /\ hlog.writes = 0)
       /\ hpc = "reset" =>
             (hlog.calls = 1 /\ hlog.writes = 0 /\ Len(wol["stream"].sent) = 3)
       /\ hpc = "idle" => (hlog.calls = 1 /\ hlog.writes = 1 /\ hlog.sentAtWrite = 3)
       /\ hlog.calls = 1 =>
             (hlog.callMac = "00:00:00:00:00:00" /\ wol["stream"].mac = hlog.callMac)
       /\ (hlog.reset = "ok" /\ ~hlog.flagTouched) => flag = BoolVal(FALSE)

C7_Witness ==
    /\ hlog.data = BoolVal(TRUE)
    /\ hlog.src = "client"
    /\ hpc = "idle"
    /\ hlog.calls = 1 /\ hlog.writes = 1 /\ hlog.reset = "ok"
    /\ Len(wol["stream"].sent) = 3
    /\ flag = BoolVal(FALSE)

\* C8: a callback for a notification that is not boolean true calls sendWOL
\* zero times and issues no write; the notification of the callback's own
\* reset is such a notification, so dispatches and writes never outnumber
\* the true notifications that came from outside.
C8_NonTriggerIgnored ==
    /\ hlog.data # BoolVal(TRUE)
       => (hpc = "idle" /\ hlog.calls = 0 /\ hlog.writes = 0 /\ hlog.reset = "none")
    /\ hlog.src = "reset" => hlog.data = BoolVal(FALSE)
    /\ \A n \in 1..Len(notif) : notif[n].src = "reset" => notif[n].data = BoolVal(FALSE)
    /\ totals.trigCalls <= totals.nTrue
    /\ totals.trigWrites <= totals.nTrue

C8_Witness ==
    /\ hlog.src = "reset"
    /\ hlog.data = BoolVal(FALSE)
    /\ hpc = "idle" /\ notif = <<>>
    /\ totals.nTrue = 1 /\ totals.trigCalls = 1 /\ totals.trigWrites = 1
    /\ totals.nOther >= 2

\* C9: a failed reset write leaves the flag as it was (true, when it was
\* true), the callback ends without another attempt, and every notification
\* carrying true that is delivered later is dispatched like any other.
C9_FailedReset ==
    /\ hlog.reset = "fail"
       => /\ hpc = "idle"
          /\ hlog.writes = 1
          /\ ~hlog.flagTouched => flag = hlog.flagAtWrite
    /\ hpc = "idle" => totals.trigCalls = totals.nTrue
    /\ totals.trigWrites <= totals.trigCalls

C9_Witness ==
    /\ totals.resetFails = 1
    /\ hlog.src = "resume"
    /\ hlog.data = BoolVal(TRUE)
    /\ hpc = "reset"
    /\ flag = BoolVal(TRUE)
    /\ totals.trigCalls = 2
    /\ clientOps = 0

(***************************************************************************)
(* Properties of sendWOL, checked under SpecSend.                          *)
(***************************************************************************)
\* C10: called with a 17-character colon-hex address on a device whose
\* local address is a.b.c.d, sendWOL hands exactly 3 packets to the sender,
\* each for that address and each to a.b.c.255, before it returns.
C10_ThreePacketsToBroadcast ==
    LET w == wol["queue"]
        p == [mac |-> passLog["t1"].callMac,
              to |-> <<localIP[1], localIP[2], localIP[3], 255>>]
    IN (passLog["t1"].calls > 0 /\ passLog["t1"].callMac \in ColonHexMacs)
       => /\ w.state \in {"sending", "returned"}
          /\ \A n \in 1..Len(w.sent) : w.sent[n] = p
          /\ Len(w.sent) <= 3
          /\ (w.state = "returned") <=> (Len(w.sent) = 3)
          /\ (w.state = "sending") <=> (pc = "pacing")
          /\ passLog["t1"].callMac = passLog["t1"].before.mac

C10_Witness ==
    /\ wol["queue"].state = "returned"
    /\ wol["queue"].mac = LowerMac
    /\ localIP = <<10, 168, 255, 254>>
    /\ wol["queue"].sent = << [mac |-> LowerMac, to |-> <<10, 168, 255, 255>>],
                              [mac |-> LowerMac, to |-> <<10, 168, 255, 255>>],
                              [mac |-> LowerMac, to |-> <<10, 168, 255, 255>>] >>

(***************************************************************************)
(* Pruning, checked under SpecQueue.                                       *)
(***************************************************************************)
InSnapshot(t) == \E n \in 1..Len(snapshot) : snapshot[n].key = t

\* the latest bulk read of the queue succeeded, in a build that prunes
PrunedThenRead == DELETE_COMPLETED_QUEUE_TASKS /\ passEnv.lastRead = "ok"

\* C12, as claimed: with pruning enabled, a task to which a pass wrote "done"
\* (and which no client has written since) is not among the entries the next
\* successful bulk read of the queue finds.
C12_AsClaimed ==
    \A t \in TaskIds :
        (PrunedThenRead /\ passLog[t].prior # "none") => ~InSnapshot(t)

\* C12, amended: with pruning enabled, a task to which a pass wrote "done"
\* and whose deleteNode request in that pass succeeded is not among the
\* entries the next successful bulk read finds, unless a client has written it
\* again; when the deleteNode request failed the task is still found, with
\* status "done", and the pass that finds it sends nothing and marks it again.
C12_AbsentOnceDeleted ==
    \A t \in TaskIds :
        PrunedThenRead =>
           /\ passLog[t].prior = "deleted" => (~InSnapshot(t) /\ passLog[t].evals = 0)
           /\ passLog[t].prior = "kept" =>
                 /\ InSnapshot(t)
                 /\ passLog[t].calls = 0
                 /\ passLog[t].read = "ok" =>
                       /\ passLog[t].before.status = "done"
                       /\ InSeq(t, completedTaskIds)

C12_Witness ==
    /\ PassOver /\ passes = 2
    /\ PrunedThenRead
    /\ passLog["t1"].prior = "deleted"
    /\ passLog["t2"].prior = "kept"
    /\ passLog["t2"].deleted = "ok"
    /\ queue = [t \in TaskIds |-> Absent]

(***************************************************************************)
(* The order of a pass over the snapshot, checked under SpecQueue.         *)
(***************************************************************************)
\* the pass is through with the entry at index n of the snapshot, has
\* evaluated it, has not begun with it
Finished(n) == pc \in {"idle", "prune"} \/ n < i
Evaluated(n) == Finished(n) \/ (n = i /\ pc # "inspect")
NotBegun(n) == ~Evaluated(n)

\* C15, as claimed: every entry of the bulk read is re-read and evaluated
\* exactly once in the pass, whatever the entries before it came to.
C15_AsClaimed ==
    \A n \in 1..Len(snapshot) :
        LET l == passLog[snapshot[n].key]
        IN /\ l.evals = IF Evaluated(n) THEN 1 ELSE 0
           /\ Evaluated(n) => l.read \in {"ok", "fail"}

\* C15, amended: every entry of the bulk read is evaluated exactly once in the
\* pass, whatever the entries before it came to; an entry the bulk read shows
\* as an object is re-read exactly once, with that evaluation, and an entry
\* that is not an object is skipped without a re-read.
C15_EachEntryOnce ==
    /\ \A n \in 1..Len(snapshot) :
          LET l == passLog[snapshot[n].key]
          IN /\ l.evals = IF Evaluated(n) THEN 1 ELSE 0
             /\ Evaluated(n) =>
                   /\ l.type = snapshot[n].type
                   /\ (l.read \in {"ok", "fail"}) <=> (snapshot[n].type = "object")
                   /\ (l.read = "none") <=> (snapshot[n].type # "object")
    /\ \A t \in TaskIds : InSnapshot(t) \/ passLog[t].evals = 0

C15_Witness ==
    /\ PassOver
    /\ Len(snapshot) = 2
    /\ passLog[snapshot[1].key].read = "fail"
    /\ passLog[snapshot[1].key].evals = 1
    /\ passLog[snapshot[2].key].read = "ok"
    /\ passLog[snapshot[2].key].evals = 1
    /\ passLog[snapshot[2].key].calls = 1
    /\ passLog[snapshot[2].key].doneWrite = "fail"

\* C16: the entries of the snapshot are handled one after the other: sendWOL
\* is entered for a task only when its delay has elapsed in full, its packets
\* go out within that call, its status is written only after the call has
\* returned, and while the pass is at one entry the entries after it have had
\* no re-read, no delay, no packet and no write, the entries before it have
\* had all of theirs.
C16_InSequence ==
    \A n \in 1..Len(snapshot) :
        LET l == passLog[snapshot[n].key]
            full == DelayMsOf(l.before.delay)
            atHand == n = i /\ pc \notin {"idle", "prune"}
        IN /\ NotBegun(n) =>
                 /\ l.evals = 0 /\ l.waited = 0 /\ l.calls = 0 /\ l.packets = 0
                 /\ l.errWrite = "none" /\ l.doneWrite = "none"
           /\ (atHand /\ pc = "delay") =>
                 (l.waited = 0 /\ l.calls = 0 /\ l.packets = 0 /\ l.doneWrite = "none")
           /\ (atHand /\ pc = "send") =>
                 (l.waited = full /\ l.calls = 0 /\ l.packets = 0 /\ l.doneWrite = "none")
           /\ (atHand /\ pc = "pacing") =>
                 (l.waited = full /\ l.calls = 1 /\ l.packets < 3 /\ l.doneWrite = "none")
           /\ (atHand /\ pc = "write") =>
                 /\ l.waited = full /\ l.calls = 1 /\ l.doneWrite = "none"
                 /\ l.packets = IF Len(l.callMac) = 17 THEN 3 ELSE 0
           /\ Finished(n) =>
                 /\ l.calls <= 1
                 /\ l.calls = 1 =>
                       /\ l.waited = full
                       /\ l.packets = IF Len(l.callMac) = 17 THEN 3 ELSE 0
                       /\ l.doneWrite \in {"ok", "fail"}
                 /\ l.calls = 0 =>
                       (l.waited = 0 /\ l.packets = 0 /\ l.doneWrite = "none")

C16_Witness ==
    /\ pc = "send" /\ i = 2
    /\ Len(snapshot) = 2
    /\ passLog[snapshot[1].key].waited = 1000
    /\ passLog[snapshot[1].key].packets = 3
    /\ passLog[snapshot[1].key].doneWrite = "ok"
    /\ passLog[snapshot[2].key].waited = 1000
    /\ passLog[snapshot[2].key].calls = 0
    /\ passLog[snapshot[2].key].doneWrite = "none"

(***************************************************************************)
(* The readiness check of processWolQueue, checked under SpecQueue.        *)
(***************************************************************************)
\* a step in which processWolQueue is entered and finds the store not ready
NotReadyPass == passes' = passes + 1 /\ ~passEnv'.ready

\* C19: a pass that finds the store not ready returns at once, having issued
\* no request, changed nothing in the store, called sendWOL for no task and
\* marked nothing for pruning; and the attempt that follows a pass that found
\* the store not ready comes after the main loop has waited one
\* QUEUE_CHECK_INTERVAL.
C19_NotReadyDefers ==
    /\ [][NotReadyPass =>
             /\ UNCHANGED <<storeVars, queueRoot, sessions, wol, totals, passLog,
                            completedTaskIds>>
             /\ pc' = "idle"]_vars
    /\ [](passEnv.prev = "notready" => passEnv.idled = QUEUE_CHECK_INTERVAL)

C19_Witness ==
    /\ passes = 2
    /\ passEnv.prev = "notready"
    /\ passEnv.idled = QUEUE_CHECK_INTERVAL
    /\ passEnv.ready
    /\ sessions["fbdo_general"] = "setString done"
    /\ passLog["t1"].calls = 1
    /\ passLog["t1"].doneWrite = "ok"

(***************************************************************************)
(* The deletion loop, checked under SpecQueue.                             *)
(***************************************************************************)
\* the pass read task t as "done", or wrote "done" to it with success
FoundDone(t) ==
    /\ passLog[t].type = "object" /\ passLog[t].read = "ok"
    /\ passLog[t].before.kind = "object" /\ passLog[t].before.status = "done"
WroteDone(t) == passLog[t].doneWrite = "ok"

\* a step in which the firmware, not an external client, removes task t
PassDeletes(t) ==
    /\ queue[t].kind # "absent" /\ queue'[t].kind = "absent"
    /\ clientOps' = clientOps

\* C21: the ids marked for deletion are those of tasks the pass read as
\* "done" or wrote "done" to with success, and none is marked with pruning
\* disabled; the firmware removes a task only in the deletion loop, with
\* every entry of the snapshot evaluated, the task being the marked id at
\* hand, and, no client having written it since, stored as "done"; and the loop
\* issues a deletion for every marked id, whatever the deletions before it
\* returned.
C21_DeferredSelective ==
    /\ [](/\ completedTaskIds # <<>> => DELETE_COMPLETED_QUEUE_TASKS
          /\ \A k \in 1..Len(completedTaskIds) :
                LET t == completedTaskIds[k]
                IN /\ InSnapshot(t)
                   /\ FoundDone(t) \/ WroteDone(t)
                   /\ (passLog[t].deleted = "none")
                         <=> (pc \notin {"idle", "prune"} \/ (pc = "prune" /\ k >= j))
          /\ \A t \in TaskIds :
                passLog[t].deleted # "none" => InSeq(t, completedTaskIds))
    /\ [][\A t \in TaskIds :
             PassDeletes(t) =>
                /\ pc = "prune" /\ DELETE_COMPLETED_QUEUE_TASKS
                /\ t = completedTaskIds[j]
                /\ \A n \in 1..Len(snapshot) : passLog[snapshot[n].key].evals = 1
                /\ ~passLog[t].touched => queue[t].status = "done"]_vars

C21_Witness ==
    /\ PassOver
    /\ DELETE_COMPLETED_QUEUE_TASKS
    /\ completedTaskIds = <<"t1", "t2">>
    /\ WroteDone("t1") /\ ~FoundDone("t1")
    /\ FoundDone("t2")
    /\ passLog["t1"].deleted = "fail"
    /\ passLog["t2"].deleted = "ok"
    /\ queue["t1"].status = "done"
    /\ queue["t2"] = Absent

(***************************************************************************)
(* The pass and the external writers of the queue, checked under SpecQueue.*)
(***************************************************************************)
\* C23, as claimed: no step of the firmware puts an entry under a task id
\* that holds none, as after a client has deleted the task, and no step of
\* the firmware changes or removes the mac field of an entry, whatever the
\* clients write between the pass's re-read of a task and its status write.
C23_AsClaimed ==
    [][clientOps' = clientOps =>
          \A t \in TaskIds :
              queue'[t].kind = "object" =>
                 (queue[t].kind = "object" /\ queue'[t].mac = queue[t].mac)]_vars

(***************************************************************************)
(* Progress of the queue, checked under SpecLive.                          *)
(***************************************************************************)
\* the store holds task t as pending with a mac field
PendingWithMac(t) ==
    /\ queue[t].kind = "object"
    /\ queue[t].status = "pending"
    /\ queue[t].mac # NoField

\* C22: with the main loop running without end, the store ready and its
\* reads and the status write succeeding again and again, every task stored
\* as pending with a mac is in the end stored as "done", however often the
\* status write failed before.
C22_EventuallyDone ==
    \A t \in TaskIds :
        PendingWithMac(t) ~> (queue[t].kind = "object" /\ queue[t].status = "done")

C22_Witness ==
    /\ passLog["t1"].retry
    /\ passLog["t1"].doneWrite = "ok"
    /\ passLog["t1"].packets = 3
    /\ totals.taskCalls["t1"] = 2
    /\ queue["t1"].status = "done"
    /\ queue["t1"].mac = ValidMac

(***************************************************************************)
(* The pass and the stream callback side by side, checked under Spec.      *)
(***************************************************************************)
\* C17, as claimed: what a pass does with a task depends on the task as the
\* store holds it and on the pass's own requests, not on a run of the stream
\* callback that overlaps it: a task the pass re-reads with success while the
\* store holds it as pending with a mac is dispatched in that pass.
C17_AsClaimed ==
    \A t \in TaskIds :
        (ReadPending(t) /\ passLog[t].before.mac # NoField)
        => passLog[t].eval = "process"

(***************************************************************************)
(* Properties of checkAndInitFirebaseStructure, checked under SpecBoot.    *)
(***************************************************************************)
\* a call of the structure check has begun, and has returned
Called == slog.flagRead # "none"
Returned == slog.returned # "none"

\* C13: a call of checkAndInitFirebaseStructure that finds a value at the
\* flag path issues no write to it and leaves it as it was, the same for the
\* queue path, and with a value at both it issues no write at all, on a first
\* call as on a call that follows another.
C13_Idempotent ==
    Called =>
       /\ FlagHolds(slog.flag0)
             => (slog.flagWrite = "none" /\ flag = slog.flag0)
       /\ QueueHolds(slog.queue0, slog.root0)
             => /\ slog.queueWrite = "none"
                /\ queue = slog.queue0 /\ queueRoot = slog.root0
       /\ (FlagHolds(slog.flag0) /\ QueueHolds(slog.queue0, slog.root0))
             => slog.writes = 0

C13_Witness ==
    /\ boots = 2
    /\ Returned
    /\ slog.prevWrites = 1
    /\ slog.flagRead = "ok" /\ slog.queueRead = "ok"
    /\ slog.writes = 0
    /\ flag = BoolVal(FALSE)
    /\ queue["t1"].status = "pending"

\* C14, as claimed: checkAndInitFirebaseStructure returns true exactly when,
\* on return, the flag path holds a boolean and the queue path holds an
\* object.
C14_AsClaimed ==
    Returned =>
       ( (slog.returned = "true")
         <=> (flag.type = "boolean" /\ QueueValue(queue, queueRoot) = "object") )

(***************************************************************************)
(* Properties of setup and of the two sessions, checked under SpecSetup.   *)
(***************************************************************************)
\* a step of the bring-up failed: joining the network, the request/response
\* path to the store, or the trigger subscription
BringUpFailed ==
    slog.wifi = "fail" \/ slog.firebase = "fail" \/ slog.stream = "fail"

\* nothing of the main loop has run since power-on
NothingRan ==
    /\ passes = 0 /\ pc = "idle" /\ hpc = "idle"
    /\ \A t \in TaskIds : passLog[t] = BlankLog
    /\ hlog = BlankHLog

\* C18: no request other than beginStream is ever issued over fbdo_stream,
\* and beginStream is never issued over fbdo_general: the reads, writes and
\* deletes of the structure check, the pass and the stream callback all go
\* over fbdo_general.
C18_GeneralSessionOnly ==
    /\ sessions["fbdo_stream"] \in {"none", "beginStream"}
    /\ sessions["fbdo_general"] # "beginStream"

C18_Witness ==
    /\ sessions["fbdo_stream"] = "beginStream"
    /\ sessions["fbdo_general"] = "setBool reset"
    /\ hlog.reset = "ok"
    /\ slog.flagRead = "ok"
    /\ passLog["t1"].doneWrite = "ok"

\* C20, as claimed: a failed step of the bring-up halts the device before
\* anything of the main loop runs, and the main loop runs only with the store
\* session initialised and the trigger subscription begun.
C20_AsClaimed ==
    /\ BringUpFailed => (spc # "loop" /\ NothingRan)
    /\ spc = "loop" =>
          (slog.wifi = "ok" /\ slog.firebase = "ok" /\ slog.stream = "ok"
           /\ streamBegun)

(***************************************************************************)
(* More on sendWOL, checked under SpecSend.                                *)
(***************************************************************************)
\* C11, as claimed: a call of sendWOL with an address that is not in
\* 17-character colon-separated hexadecimal form is rejected: no packet is
\* handed to the sender, whatever the length of the address.
C11_AsClaimed ==
    LET w == wol["queue"]
    IN (w.state # "none" /\ w.mac \notin ColonHexMacs)
       => (w.state = "rejected" /\ w.sent = <<>>)

=============================================================================
